---- MODULE Spec2Model ----
(***************************************************************************)
(* The dashboard host and the admin remote of micro-frontend-with-nx.      *)
(*                                                                         *)
(* The repository's code is declarative: a route table, two NgModule       *)
(* declarations, the federation plugin options and the host template.      *)
(* These are the definitions of the first part.  What runs them is the     *)
(* router the host registers with RouterModule.forRoot and the             *)
(* loadRemoteModule call of the route's loadChildren callback; the second  *)
(* part models one browser session of the host (and, as a specification   *)
(* of its own, the admin application served alone) as the steps those two  *)
(* take on the declared configuration.  A URL path is its segments:        *)
(* '' is << >>, 'admin-panel' is <<"admin-panel">>.                        *)
(***************************************************************************)
EXTENDS Naturals, Sequences, FiniteSets

\* Bound of the model: navigations of one host session (the initial one included).
MaxNavs == 3

\* ng add ... --project dashboard --port 4200 / --project admin --port 4201
DashboardPort == 4200
AdminPort == 4201

(***************************************************************************)
(* Part 1: the declared configuration                                      *)
(***************************************************************************)

\* admin: const routes: Routes = [{ path: '', component: AdminPanelComponent }]
AdminPanelRoutes ==
    << [path |-> << >>, component |-> "AdminPanelComponent", lazy |-> FALSE] >>

\* admin: @NgModule({declarations: [AdminPanelComponent],
\*                   imports: [CommonModule, RouterModule.forChild(routes)], ...})
\*        export class AdminPanelModule {}
AdminPanelModule ==
    [name         |-> "AdminPanelModule",
     declarations |-> {"AdminPanelComponent"},
     routes       |-> AdminPanelRoutes]

\* The value of a property read that finds nothing (m.AdminPanelModule on a
\* namespace without that export).
Undefined == [name |-> "undefined", declarations |-> {}, routes |-> << >>]

\* admin: RouterModule.forRoot([], { initialNavigation: 'enabled' })
AdminAppRoutes == << >>

\* admin: AppModule's imports that contribute routes, in order: the root table,
\* then AdminPanelModule (imported eagerly).
AdminAppImports == << AdminAppRoutes, AdminPanelModule.routes >>

\* admin: bootstrap: [AppComponent]
AdminAppBootstrap == {"AppComponent"}

\* admin webpack.config.js: new ModuleFederationPlugin({ name, filename, exposes, shared })
AdminFederation ==
    [name     |-> "admin",
     filename |-> "remoteEntry.js",
     exposes  |-> {[key |-> "./Module", exports |-> {"AdminPanelModule"}]},
     strictVersion |-> TRUE]

\* dashboard: the options handed to loadRemoteModule;
\* remoteEntry 'http://localhost:4201/remoteEntry.js' as port and file.
LoadOptionsWrongPort ==
    [remoteEntry   |-> [port |-> DashboardPort, file |-> "remoteEntry.js"],
     remoteName    |-> "admin",
     exposedModule |-> "./Module"]

LoadOptionsWrongKey ==
    [remoteEntry   |-> [port |-> AdminPort, file |-> "remoteEntry.js"],
     remoteName    |-> "admin",
     exposedModule |-> "./AdminPanelModule"]

LoadOptions ==
    [remoteEntry   |-> [port |-> AdminPort, file |-> "remoteEntry.js"],
     remoteName    |-> "admin",
     exposedModule |-> "./Module"]

\* dashboard: .then((m) => m.AdminPanelModule)
ResolvedExport == "AdminPanelModule"

\* dashboard: const routes: Route[] = [{ path: 'admin-panel', loadChildren: ... }]
routesLazyRoot ==
    << [path |-> << >>, component |-> "", lazy |-> TRUE] >>

routes ==
    << [path |-> <<"admin-panel">>, component |-> "", lazy |-> TRUE] >>

\* dashboard: RouterModule.forRoot(routes, { initialNavigation: 'enabled' })
RouterOptions == [initialNavigation |-> "enabled"]

\* dashboard: bootstrap: [AppComponent]
HostBootstrapNone == {}

HostBootstrap == {"AppComponent"}

\* dashboard app.component.html: <h1>, <a routerLink="/admin-panel">, <router-outlet>
AppTemplate == << "h1", "a", "router-outlet" >>

\* The target of the template's only link: routerLink="/admin-panel"
RouterLink == <<"admin-panel">>

(***************************************************************************)
(* Part 2: one host session                                                *)
(***************************************************************************)

VARIABLES
    remote,        \* what answers on the admin endpoint now
    container,     \* window[remoteName]: the remote entry the page has executed
    moduleMap,     \* loadRemoteModule's record that the entry script is loaded
    host,          \* "bootstrapping", "running" or "hung"
    shell,         \* the top-level components the host has mounted
    outlet,        \* the component instances inside the host's router outlet
    url,           \* the router's current URL
    navId,         \* navigations started so far
    cur,           \* the navigation the router is processing
    navTarget,     \* per navigation: its target path
    navStatus,     \* per navigation: how it stands
    rmSt,          \* per navigation: its loadRemoteModule promise
    rmBuild,       \* per navigation: what answered that call
    rmExports,     \* per navigation: the exports that promise fulfilled with
    lcSt,          \* per navigation: its loadChildren promise
    loadVal,       \* per navigation: what its loadChildren promise resolved to
    calls,         \* per navigation: its calls of loadRemoteModule
    loadedConfig,  \* the lazy route's loaded configuration
    fetches,       \* every fetch of a remote entry file started so far
    errors,        \* what reached the framework's default error channel
    adminApp,      \* the admin application served on its own
    adminActive,   \* the components its bootstrap and its router activated
    steady         \* per navigation: the declared build was served from its call of
                   \* loadRemoteModule on, as long as the navigation was current

vars == << remote, container, moduleMap, host, shell, outlet, url, navId, cur,
           navTarget, navStatus, rmSt, rmBuild, rmExports, lcSt, loadVal, calls,
           loadedConfig, fetches, errors, adminApp, adminActive, steady >>

NavIds == 1..MaxNavs

\* The paths a user may ask for: the root, the routed path, a path below the
\* routed path, an unrouted path.
Paths == { << >>, <<"admin-panel">>, <<"admin-panel", "x">>, <<"other">> }

\* What the admin endpoint may serve: nothing, the build the repository declares,
\* a build whose shared framework version differs, a build whose exposed file
\* has no AdminPanelModule export.
RemoteStates == {"down", "ok", "mismatch", "noexport"}

NoNav == [id |-> 0, target |-> << >>, phase |-> "idle", component |-> ""]
NoConfig == [loaded |-> FALSE, module |-> Undefined, port |-> 0]
NoContainer == [build |-> "none", port |-> 0]

\* ---- the servers ----

\* The server a URL reaches.  Only the admin server has a remote entry file, under
\* the name its federation plugin sets; the dashboard server has none.
Serve(u, r) ==
    IF u.port = AdminPort /\ u.file = AdminFederation.filename THEN r ELSE "down"

\* The build a label stands for.
BuildOf(label) ==
    [name    |-> AdminFederation.name,
     exposes |-> IF label = "noexport"
                    THEN {[key |-> e.key, exports |-> {}] : e \in AdminFederation.exposes}
                    ELSE AdminFederation.exposes,
     sameVersion |-> label # "mismatch"]

\* ---- loadRemoteModule(options).then(m => m.AdminPanelModule) ----

\* The module a build's file exports under a name.
ModuleNamed(n) == IF n = AdminPanelModule.name THEN AdminPanelModule ELSE Undefined

\* (m) => m.AdminPanelModule: a missing export reads as undefined, it does not throw.
ThenCallbackWrongName(exports) ==
    IF "AdminModule" \in exports THEN ModuleNamed("AdminModule") ELSE Undefined

ThenCallback(exports) ==
    IF ResolvedExport \in exports THEN ModuleNamed(ResolvedExport) ELSE Undefined

\* window[remoteName], container.init under strictVersion, container.get(exposedModule):
\* a rejection, or the exports of the exposed file.
LookupExposedModule(c, o) ==
    LET b == BuildOf(c.build)
        hit == {e \in b.exposes : e.key = o.exposedModule}
    IN  IF c.build = "none" \/ b.name # o.remoteName THEN [ok |-> FALSE, exports |-> {}]
        ELSE IF AdminFederation.strictVersion /\ ~b.sameVersion
                THEN [ok |-> FALSE, exports |-> {}]
        ELSE IF hit = {} THEN [ok |-> FALSE, exports |-> {}]
        ELSE [ok |-> TRUE, exports |-> UNION {e.exports : e \in hit}]

\* The loadChildren callback's promise, from the settled promise of
\* loadRemoteModule: a rejection passes through .then unchanged (there is no
\* second argument and no .catch), a fulfilment goes through the callback.
LoadChildrenCatching(settled) ==
    IF settled.ok THEN [st |-> "resolved", val |-> ThenCallback(settled.exports)]
    ELSE [st |-> "resolved", val |-> AdminPanelModule]

LoadChildrenThrowing(settled) ==
    IF settled.ok /\ ThenCallback(settled.exports) # Undefined
    THEN [st |-> "resolved", val |-> ThenCallback(settled.exports)]
    ELSE [st |-> "rejected", val |-> Undefined]

LoadChildren(settled) ==
    IF settled.ok THEN [st |-> "resolved", val |-> ThenCallback(settled.exports)]
    ELSE [st |-> "rejected", val |-> Undefined]

\* ---- the router's matching ----

IsPrefix(p, s) == Len(p) <= Len(s) /\ \A i \in 1..Len(p) : p[i] = s[i]
Rest(p, s) == SubSeq(s, Len(p) + 1, Len(s))

\* The routes ROUTES collects from a module's imports, flattened in order.
RECURSIVE Flatten(_)
Flatten(tables) ==
    IF tables = << >> THEN << >> ELSE Head(tables) \o Flatten(Tail(tables))

\* Match segs against config from route i on, in order; the default pathMatch is
\* 'prefix'.  "component": a route with a component consumed the URL; "empty":
\* nothing matched and nothing is left over; "load": a lazy route matched and its
\* configuration is not loaded; "nomatch".
RECURSIVE MatchFrom(_, _, _, _)
MatchFrom(config, segs, i, loaded) ==
    IF i > Len(config)
    THEN [kind |-> IF segs = << >> THEN "empty" ELSE "nomatch", component |-> ""]
    ELSE LET r == config[i]
             rest == Rest(r.path, segs)
         IN  IF ~IsPrefix(r.path, segs) THEN MatchFrom(config, segs, i + 1, loaded)
             ELSE IF r.lazy
                  THEN IF ~loaded.loaded THEN [kind |-> "load", component |-> ""]
                       ELSE LET c == MatchFrom(loaded.module.routes, rest, 1, NoConfig)
                            IN  IF c.kind \in {"component", "empty"} THEN c
                                ELSE MatchFrom(config, segs, i + 1, loaded)
             ELSE IF rest = << >>
                  THEN [kind |-> "component", component |-> r.component]
             ELSE MatchFrom(config, segs, i + 1, loaded)

RecognizeNoCache(config, segs, loaded) == MatchFrom(config, segs, 1, NoConfig)

Recognize(config, segs, loaded) == MatchFrom(config, segs, 1, loaded)

\* ---- the outlet ----

\* Where a template puts routed views: only one with a router-outlet shows any.
HasOutlet(template) == \E i \in 1..Len(template) : template[i] = "router-outlet"

\* Activating a recognized navigation in the outlet: the same component stays
\* (route reuse), another one replaces what was there, none empties it.
ActivateOutlet(out, component, id, port) ==
    IF component = "" THEN {}
    ELSE IF \E i \in out : i.component = component THEN out
    ELSE {[component |-> component, nav |-> id, port |-> port]}

(***************************************************************************)
(* Init: the page of the host has been requested at some path; with         *)
(* initialNavigation 'enabled' the router's initial navigation is scheduled *)
(* and the bootstrap waits for it.                                          *)
(***************************************************************************)
Init ==
    /\ remote \in RemoteStates
    /\ container = NoContainer
    /\ moduleMap = FALSE
    /\ host = "bootstrapping"
    /\ shell = {}
    /\ outlet = {}
    /\ url = << >>
    /\ navId = 1
    /\ RouterOptions.initialNavigation = "enabled"
    /\ \E t \in Paths :
          /\ cur = [id |-> 1, target |-> t, phase |-> "scheduled", component |-> ""]
          /\ navTarget = [i \in NavIds |-> IF i = 1 THEN t ELSE << >>]
    /\ navStatus = [i \in NavIds |-> IF i = 1 THEN "pending" ELSE "none"]
    /\ rmSt = [i \in NavIds |-> "none"]
    /\ rmBuild = [i \in NavIds |-> "none"]
    /\ rmExports = [i \in NavIds |-> {}]
    /\ lcSt = [i \in NavIds |-> "none"]
    /\ loadVal = [i \in NavIds |-> Undefined]
    /\ calls = [i \in NavIds |-> 0]
    /\ loadedConfig = NoConfig
    /\ fetches = {}
    /\ errors = {}
    /\ adminApp = [state |-> "off", target |-> << >>]
    /\ adminActive = {}
    /\ steady = [i \in NavIds |-> FALSE]

adminVars == << adminApp, adminActive >>
remoteVars == << remote, container, moduleMap >>
viewVars == << host, shell, outlet, url >>
loadVars == << rmSt, rmBuild, rmExports, lcSt, loadVal, calls, fetches >>

\* A navigation ends in an error: the router's default errorHandler rethrows and
\* the navigation's promise rejects unhandled.  The view is left as it was.  An
\* initial navigation that fails never releases the bootstrap it blocks.
Fail(id, kind) ==
    /\ errors' = errors \cup {[nav |-> id, kind |-> kind]}
    /\ navStatus' = [navStatus EXCEPT ![id] = "failed"]
    /\ cur' = NoNav
    /\ host' = IF host = "bootstrapping" THEN "hung" ELSE host
    /\ UNCHANGED << shell, outlet, url >>

\* The environment: the admin endpoint changes what it serves.
RemoteChange(s) ==
    /\ s # remote
    /\ remote' = s
    /\ steady' = IF cur.id \in NavIds THEN [steady EXCEPT ![cur.id] = FALSE] ELSE steady
    /\ UNCHANGED << container, moduleMap, viewVars, navId, cur, navTarget, navStatus,
                    loadVars, loadedConfig, errors, adminVars >>

\* A click on the link, or any other navigation inside the running host.  It
\* supersedes the navigation in progress; a navigation to the current URL is
\* ignored (onSameUrlNavigation is left at its default).
Navigate(t) ==
    /\ host = "running"
    /\ navId < MaxNavs
    /\ navId' = navId + 1
    /\ navTarget' = [navTarget EXCEPT ![navId + 1] = t]
    /\ LET cancelled == IF cur.phase = "idle" THEN navStatus
                        ELSE [navStatus EXCEPT ![cur.id] = "cancelled"]
       IN  IF t = url
           THEN /\ navStatus' = [cancelled EXCEPT ![navId + 1] = "ignored"]
                /\ cur' = NoNav
           ELSE /\ navStatus' = [cancelled EXCEPT ![navId + 1] = "pending"]
                /\ cur' = [id |-> navId + 1, target |-> t, phase |-> "scheduled",
                           component |-> ""]
    /\ UNCHANGED << remoteVars, viewVars, loadVars, loadedConfig, errors, adminVars, steady >>

\* The router reaches the lazy route and its configuration is not loaded: it
\* calls loadChildren, which calls loadRemoteModule; the entry script is fetched
\* unless moduleMap says it is loaded.
RecognizeLoad ==
    /\ cur.phase = "scheduled"
    /\ Recognize(routes, cur.target, loadedConfig).kind = "load"
    /\ calls' = [calls EXCEPT ![cur.id] = @ + 1]
    /\ IF moduleMap
       THEN /\ rmSt' = [rmSt EXCEPT ![cur.id] = "lookup"]
            /\ fetches' = fetches
       ELSE /\ rmSt' = [rmSt EXCEPT ![cur.id] = "fetching"]
            /\ fetches' = fetches \cup {[nav |-> cur.id, url |-> LoadOptions.remoteEntry]}
    /\ cur' = [cur EXCEPT !.phase = "loading"]
    /\ steady' = [steady EXCEPT ![cur.id] = (remote = "ok")]
    /\ UNCHANGED << remoteVars, viewVars, navId, navTarget, navStatus, rmBuild,
                    rmExports, lcSt, loadVal, loadedConfig, errors, adminVars >>

\* The router recognizes the URL without loading anything.
RecognizeMatch ==
    /\ cur.phase = "scheduled"
    /\ LET r == Recognize(routes, cur.target, loadedConfig)
       IN  /\ r.kind \in {"component", "empty"}
           /\ cur' = [cur EXCEPT !.phase = "preactivated", !.component = r.component]
    /\ UNCHANGED << remoteVars, viewVars, navId, navTarget, navStatus, loadVars,
                    loadedConfig, errors, adminVars, steady >>

\* No route matches the URL.
RecognizeNoMatch ==
    /\ cur.phase = "scheduled"
    /\ Recognize(routes, cur.target, loadedConfig).kind = "nomatch"
    /\ Fail(cur.id, "nomatch")
    /\ UNCHANGED << remoteVars, navId, navTarget, loadVars, loadedConfig, adminVars, steady >>

\* The entry script of navigation id's call fails to load: the promise of
\* loadRemoteModule rejects.  The promise .then derived from it is still pending.
FetchError(id) ==
    /\ rmSt[id] = "fetching"
    /\ Serve(LoadOptions.remoteEntry, remote) = "down"
    /\ rmSt' = [rmSt EXCEPT ![id] = "rejected"]
    /\ rmBuild' = [rmBuild EXCEPT ![id] = "down"]
    /\ UNCHANGED << remoteVars, viewVars, navId, cur, navTarget, navStatus, rmExports,
                    lcSt, loadVal, calls, fetches, loadedConfig, errors, adminVars, steady >>

\* The entry script loads and runs: it sets window[name], and moduleMap is set.
FetchLoad(id) ==
    /\ rmSt[id] = "fetching"
    /\ Serve(LoadOptions.remoteEntry, remote) # "down"
    /\ container' = [build |-> Serve(LoadOptions.remoteEntry, remote),
                     port |-> LoadOptions.remoteEntry.port]
    /\ moduleMap' = TRUE
    /\ rmSt' = [rmSt EXCEPT ![id] = "lookup"]
    /\ UNCHANGED << remote, viewVars, navId, cur, navTarget, navStatus, rmBuild,
                    rmExports, lcSt, loadVal, calls, fetches, loadedConfig, errors,
                    adminVars, steady >>

\* The exposed module is looked up in the container: the promise of
\* loadRemoteModule settles.  The promise .then derived from it is still pending.
Lookup(id) ==
    /\ rmSt[id] = "lookup"
    /\ rmBuild' = [rmBuild EXCEPT ![id] = container.build]
    /\ LET m == LookupExposedModule(container, LoadOptions)
       IN  /\ rmSt' = [rmSt EXCEPT ![id] = IF m.ok THEN "fulfilled" ELSE "rejected"]
           /\ rmExports' = [rmExports EXCEPT ![id] = m.exports]
    /\ UNCHANGED << remoteVars, viewVars, navId, cur, navTarget, navStatus, lcSt,
                    loadVal, calls, fetches, loadedConfig, errors, adminVars, steady >>

\* The promise job of .then((m) => m.AdminPanelModule): a later job than the one
\* that settled loadRemoteModule's promise; it settles the loadChildren promise.
ThenJob(id) ==
    /\ rmSt[id] \in {"fulfilled", "rejected"}
    /\ lcSt[id] = "none"
    /\ LET p == LoadChildren([ok |-> rmSt[id] = "fulfilled", exports |-> rmExports[id]])
       IN  /\ lcSt' = [lcSt EXCEPT ![id] = p.st]
           /\ loadVal' = [loadVal EXCEPT ![id] = p.val]
    /\ UNCHANGED << remoteVars, viewVars, navId, cur, navTarget, navStatus, rmSt,
                    rmBuild, rmExports, calls, fetches, loadedConfig, errors,
                    adminVars, steady >>

\* The current navigation's loadChildren promise resolved to a module: the
\* router keeps its configuration on the route and matches the rest of the URL.
LoadResolved ==
    /\ cur.phase = "loading"
    /\ lcSt[cur.id] = "resolved"
    /\ loadVal[cur.id] # Undefined
    /\ LET cfg == [loaded |-> TRUE, module |-> loadVal[cur.id], port |-> container.port]
           r == Recognize(routes, cur.target, cfg)
       IN  /\ loadedConfig' = cfg
           /\ IF r.kind \in {"component", "empty"}
              THEN /\ cur' = [cur EXCEPT !.phase = "preactivated",
                                         !.component = r.component]
                   /\ UNCHANGED << viewVars, navStatus, errors >>
              ELSE Fail(cur.id, "nomatch")
    /\ UNCHANGED << remoteVars, navId, navTarget, loadVars, adminVars, steady >>

\* It resolved to undefined: the router cannot build a module from it.
LoadUndefined ==
    /\ cur.phase = "loading"
    /\ lcSt[cur.id] = "resolved"
    /\ loadVal[cur.id] = Undefined
    /\ Fail(cur.id, "compile")
    /\ UNCHANGED << remoteVars, navId, navTarget, loadVars, loadedConfig, adminVars, steady >>

\* It rejected.
LoadRejected ==
    /\ cur.phase = "loading"
    /\ lcSt[cur.id] = "rejected"
    /\ Fail(cur.id, "load")
    /\ UNCHANGED << remoteVars, navId, navTarget, loadVars, loadedConfig, adminVars, steady >>

\* The recognized navigation is activated.  The initial one first releases the
\* bootstrap, which mounts the bootstrap components.
Activate ==
    /\ cur.phase = "preactivated"
    /\ host' = "running"
    /\ shell' = IF host = "bootstrapping" THEN HostBootstrap ELSE shell
    /\ outlet' = IF HasOutlet(AppTemplate)
                    THEN ActivateOutlet(outlet, cur.component, cur.id, loadedConfig.port)
                    ELSE outlet
    /\ url' = cur.target
    /\ navStatus' = [navStatus EXCEPT ![cur.id] = "ok"]
    /\ cur' = NoNav
    /\ UNCHANGED << remoteVars, navId, navTarget, loadVars, loadedConfig, errors,
                    adminVars, steady >>

\* ---- the admin application on its own ----
\* It is served as a page of its own and shares no state with a host session.

AdminPaths == { << >>, <<"other">> }

\* Its page is requested at some path.
AdminOpen(t) ==
    /\ adminApp.state = "off"
    /\ adminApp' = [state |-> "bootstrapping", target |-> t]
    /\ UNCHANGED << remoteVars, viewVars, navId, cur, navTarget, navStatus, loadVars,
                    loadedConfig, errors, adminActive, steady >>

\* Its initial navigation, over the routes its imports register.
AdminInitialNavigation ==
    /\ adminApp.state = "bootstrapping"
    /\ LET r == Recognize(Flatten(AdminAppImports), adminApp.target, NoConfig)
       IN  /\ adminApp' = [adminApp EXCEPT !.state =
                              CASE r.kind \in {"component", "empty"} -> "running"
                                [] r.kind = "load" -> "loading"
                                [] OTHER -> "hung"]
           /\ adminActive' =
                 CASE r.kind = "component" -> AdminAppBootstrap \cup {r.component}
                   [] r.kind = "empty" -> AdminAppBootstrap
                   [] OTHER -> {}
    /\ UNCHANGED << remoteVars, viewVars, navId, cur, navTarget, navStatus, loadVars,
                    loadedConfig, errors, steady >>

\* Its page is closed.
AdminClose ==
    /\ adminApp.state # "off"
    /\ adminApp' = [state |-> "off", target |-> << >>]
    /\ adminActive' = {}
    /\ UNCHANGED << remoteVars, viewVars, navId, cur, navTarget, navStatus, loadVars,
                    loadedConfig, errors, steady >>

Next ==
    \/ \E s \in RemoteStates : RemoteChange(s)
    \/ \E t \in Paths : Navigate(t)
    \/ RecognizeLoad
    \/ RecognizeMatch
    \/ RecognizeNoMatch
    \/ \E id \in NavIds : FetchError(id)
    \/ \E id \in NavIds : FetchLoad(id)
    \/ \E id \in NavIds : Lookup(id)
    \/ \E id \in NavIds : ThenJob(id)
    \/ LoadResolved
    \/ LoadUndefined
    \/ LoadRejected
    \/ Activate

Spec == Init /\ [][Next]_vars

\* The admin application's page, taken apart from the host session.
AdminNext ==
    \/ \E t \in AdminPaths : AdminOpen(t)
    \/ AdminInitialNavigation
    \/ AdminClose

AdminSpec == Init /\ [][AdminNext]_vars

\* The browser runs every queued task, and every request is answered or fails.
Fairness ==
    /\ WF_vars(RecognizeLoad) /\ WF_vars(RecognizeMatch) /\ WF_vars(RecognizeNoMatch)
    /\ \A id \in NavIds : WF_vars(FetchError(id) \/ FetchLoad(id))
    /\ \A id \in NavIds : WF_vars(Lookup(id))
    /\ \A id \in NavIds : WF_vars(ThenJob(id))
    /\ WF_vars(LoadResolved) /\ WF_vars(LoadUndefined) /\ WF_vars(LoadRejected)
    /\ WF_vars(Activate)

FairSpec == Spec /\ Fairness

(***************************************************************************)
(* Part 3: the properties                                                  *)
(***************************************************************************)

AdminPath == <<"admin-panel">>

\* The admin view is shown in the host's outlet, from a bundle of the admin endpoint.
AdminRendered ==
    /\ shell = {"AppComponent"}
    /\ \E i \in outlet : i.component = "AdminPanelComponent" /\ i.port = AdminPort
    /\ \A i \in outlet : i.port # DashboardPort
    /\ fetches # {}
    /\ \A f \in fetches : f.url = [port |-> AdminPort, file |-> "remoteEntry.js"]

\* A navigation that came to its end as the router's current one.
Completed(id) == navStatus[id] \in {"ok", "failed"}

\* C1 as stated: while the admin remote is served as declared, every navigation
\* of the host to 'admin-panel' eventually ends with the admin view rendered from
\* a bundle fetched on port 4201 (a navigation to the URL the host is at already
\* is ignored by the router, and the view is there).
C1_EveryAdminNavigationRenders ==
    [](remote = "ok") =>
        \A id \in NavIds :
            /\ (navStatus[id] = "pending" /\ navTarget[id] = AdminPath)
                  ~> (navStatus[id] = "ok" /\ AdminRendered)
            /\ [](navStatus[id] = "ignored" /\ navTarget[id] = AdminPath /\ id = navId
                     => AdminRendered)

\* C1 amended: while the admin remote is served as declared, every navigation of
\* the host to 'admin-panel' eventually either is superseded by a later
\* navigation or ends with the admin view rendered from a bundle fetched on
\* port 4201.
C1_AdminNavigationRendersUnlessSuperseded ==
    [](remote = "ok") =>
        \A id \in NavIds :
            /\ (navStatus[id] = "pending" /\ navTarget[id] = AdminPath)
                  ~> \/ navStatus[id] = "ok" /\ AdminRendered
                     \/ navStatus[id] = "cancelled"
            /\ [](navStatus[id] = "ignored" /\ navTarget[id] = AdminPath /\ id = navId
                     => AdminRendered)

C1_Witness ==
    /\ remote = "ok"
    /\ \E id \in NavIds :
          navTarget[id] = AdminPath /\ navStatus[id] = "ok" /\ calls[id] = 1
    /\ AdminRendered

\* A path under the routed path: its first segment is 'admin-panel'.
UnderAdminPath(t) == Len(t) >= 1 /\ t[1] = "admin-panel"

\* C2 as stated: every fetch of the remote entry file, and every call of
\* loadRemoteModule, belongs to a navigation to the path 'admin-panel';
\* bootstrapping at another path and navigating to another path start none.
C2_FetchOnlyForAdminPath ==
    /\ \A f \in fetches : navStatus[f.nav] # "none" /\ navTarget[f.nav] = AdminPath
    /\ \A id \in NavIds : calls[id] > 0 => navTarget[id] = AdminPath
    /\ (\A id \in NavIds : navStatus[id] # "none" => navTarget[id] # AdminPath)
          => fetches = {} /\ container = NoContainer /\ ~moduleMap

\* C2 amended: every fetch of the remote entry file, and every call of
\* loadRemoteModule, belongs to a navigation to 'admin-panel' or to a path below
\* it (the route matches by prefix); bootstrapping at any other path and
\* navigating to any other path start none.
C2_FetchOnlyUnderAdminPath ==
    /\ \A f \in fetches : navStatus[f.nav] # "none" /\ UnderAdminPath(navTarget[f.nav])
    /\ \A id \in NavIds : calls[id] > 0 => UnderAdminPath(navTarget[id])
    /\ (\A id \in NavIds : navStatus[id] # "none" => ~UnderAdminPath(navTarget[id]))
          => fetches = {} /\ container = NoContainer /\ ~moduleMap

C2_Witness ==
    /\ navTarget[1] = << >> /\ navStatus[1] = "ok"
    /\ \E id \in NavIds : navTarget[id] = <<"other">> /\ navStatus[id] = "failed"
    /\ \E id \in NavIds :
          /\ navTarget[id] = <<"admin-panel", "x">>
          /\ fetches = {[nav |-> id, url |-> LoadOptions.remoteEntry]}

\* C3 as stated: a navigation to 'admin-panel' that ran to its end made exactly
\* one call of loadRemoteModule.
C3_ExactlyOneCall ==
    \A id \in NavIds :
        navTarget[id] = AdminPath /\ Completed(id) => calls[id] = 1

\* C3 amended: a navigation to 'admin-panel' makes at most one call of
\* loadRemoteModule: one if it ends before any load has succeeded, none if it
\* ends after one.  If the call is rejected, the loadChildren promise never
\* resolves (it is pending until the .then job runs, then rejected), and the
\* navigation never succeeds and mounts nothing; if it ends as the
\* current navigation it ends failed, with the error on the default channel,
\* after that one call and one fetch at most, and the outlet shows no admin view.
C3_OneCallAndNoRecovery ==
    \A id \in NavIds :
        /\ calls[id] <= 1
        /\ navTarget[id] = AdminPath /\ navStatus[id] = "failed" => calls[id] = 1
        /\ navTarget[id] = AdminPath /\ navStatus[id] = "ok" /\ calls[id] = 0
              => \E j \in 1..(id - 1) : lcSt[j] = "resolved" /\ loadVal[j] # Undefined
        /\ rmSt[id] = "rejected" =>
              /\ lcSt[id] \in {"none", "rejected"}
              /\ navStatus[id] \in {"pending", "failed", "cancelled"}
              /\ \A i \in outlet : i.nav # id
        /\ rmSt[id] = "rejected" /\ navStatus[id] = "failed" =>
              /\ lcSt[id] = "rejected"
              /\ [nav |-> id, kind |-> "load"] \in errors
              /\ calls[id] = 1
              /\ Cardinality({f \in fetches : f.nav = id}) <= 1
              /\ (id = navId /\ cur = NoNav => outlet = {})

C3_Witness ==
    /\ host = "running"
    /\ \E id \in NavIds :
          /\ navTarget[id] = AdminPath /\ navStatus[id] = "failed"
          /\ rmSt[id] = "rejected" /\ lcSt[id] = "rejected" /\ calls[id] = 1
          /\ [nav |-> id, kind |-> "load"] \in errors
          /\ id = navId
    /\ outlet = {}

\* C4: the host's load options name what the admin federation declares (name,
\* exposed key, entry file, port, export), the remote exposes one unit, and
\* every call the declared build answers resolves to AdminPanelModule, whose
\* child path '' shows AdminPanelComponent.
C4_HostAndRemoteAgree ==
    /\ LoadOptions.remoteName = AdminFederation.name
    /\ LoadOptions.remoteEntry = [port |-> AdminPort, file |-> AdminFederation.filename]
    /\ Cardinality(AdminFederation.exposes) = 1
    /\ \A e \in AdminFederation.exposes :
          e.key = LoadOptions.exposedModule /\ ResolvedExport \in e.exports
    /\ \A id \in NavIds :
          rmBuild[id] = "ok" =>
              /\ rmSt[id] = "fulfilled"
              /\ rmExports[id] = {ResolvedExport}
              /\ lcSt[id] \in {"none", "resolved"}
              /\ lcSt[id] = "resolved" => loadVal[id] = AdminPanelModule
    /\ loadedConfig.loaded =>
          /\ "AdminPanelComponent" \in loadedConfig.module.declarations
          /\ Recognize(loadedConfig.module.routes, << >>, NoConfig)
                = [kind |-> "component", component |-> "AdminPanelComponent"]

C4_Witness ==
    /\ \E id \in NavIds :
          /\ rmBuild[id] = "ok" /\ navStatus[id] = "ok"
          /\ lcSt[id] = "resolved" /\ loadVal[id] = AdminPanelModule
    /\ loadedConfig.loaded
    /\ AdminRendered

\* C5: when the entry loads and the exposed file has no AdminPanelModule export,
\* the callback, once its job has run, resolves (to undefined) without
\* rejecting, and the navigation never succeeds: if it ends as the current
\* navigation it ends failed, with the error on the default channel and nothing
\* mounted.
C5_MissingExportFails ==
    \A id \in NavIds :
        rmSt[id] = "fulfilled" /\ rmBuild[id] = "noexport" =>
            /\ lcSt[id] \in {"none", "resolved"} /\ loadVal[id] = Undefined
            /\ navStatus[id] \in {"pending", "failed", "cancelled"}
            /\ cur.id = id => cur.phase = "loading"
            /\ \A i \in outlet : i.nav # id
            /\ navStatus[id] = "failed" => [nav |-> id, kind |-> "compile"] \in errors

C5_Witness ==
    \E id \in NavIds :
        /\ rmSt[id] = "fulfilled" /\ rmBuild[id] = "noexport"
        /\ lcSt[id] = "resolved"
        /\ navTarget[id] = AdminPath /\ navStatus[id] = "failed"
        /\ [nav |-> id, kind |-> "compile"] \in errors

\* C6: once bootstrapped, the host shows exactly its AppComponent, whose template
\* is the heading, the link to the admin path and the router outlet, whatever
\* the state of the admin load; views are in the outlet only while it is mounted,
\* and the admin view is the only one there can be.
C6_ShellStaysMounted ==
    /\ host = "running" => shell = {"AppComponent"}
    /\ host # "running" => shell = {} /\ outlet = {}
    /\ AppTemplate = << "h1", "a", "router-outlet" >>
    /\ RouterLink = routes[1].path
    /\ \A i \in outlet : i.component = "AdminPanelComponent"

C6_Witness ==
    /\ host = "running"
    /\ shell = {"AppComponent"}
    /\ \E id \in NavIds : navStatus[id] = "failed" /\ rmSt[id] = "rejected"
    /\ \E id \in NavIds : navStatus[id] = "ok" /\ rmSt[id] = "fulfilled"
    /\ \E i \in outlet : i.component = "AdminPanelComponent"

C9_LoadedOnce ==
    [][ /\ (loadedConfig.loaded
              \/ \E id \in NavIds : navTarget[id] = AdminPath /\ navStatus[id] = "ok")
           => /\ fetches' = fetches
              /\ calls' = calls
              /\ \A id \in NavIds :
                    navTarget[id] = AdminPath /\ navStatus[id] # "ok"
                        /\ navStatus'[id] = "ok" => AdminRendered'
        /\ Cardinality(outlet') <= 1 ]_vars

C9_Witness ==
    \E i, j \in NavIds :
        /\ i < j
        /\ navTarget[i] = AdminPath /\ navStatus[i] = "ok" /\ calls[i] = 1
        /\ navTarget[j] = AdminPath /\ navStatus[j] = "ok" /\ calls[j] = 0
        /\ Cardinality(fetches) = 1
        /\ Cardinality(outlet) = 1

====
